---- MODULE Spec2Model ----
(***************************************************************************)
(* SessionAuthAgent of the eZ Publish JavaScript REST client: the session  *)
(* life cycle kept in a key/value storage, the calls made to the user      *)
(* service, and the CSRF header hook.                                      *)
(*                                                                         *)
(* JavaScript runs every function to completion, so one action is one run  *)
(* of the event loop: either a caller invoking a method of the agent, or   *)
(* the user service answering one outstanding request (which runs the      *)
(* callback the agent handed to it, down to the caller's callback).        *)
(*                                                                         *)
(* JavaScript values are strings here: "null", "undefined", "false" and    *)
(* "true" stand for the values of these names.                             *)
(***************************************************************************)
EXTENDS Integers, Sequences, FiniteSets, TLC

VARIABLES
    ctor,       \* "ok" | "threw": how the constructor ended
    authInfo,   \* the authInfo argument the constructor was given
    store,      \* this._storage: key -> value, "null" where getItem gives null
    login,      \* this._login
    password,   \* this._password
    ops,        \* the invocations of the agent's methods, in call order
    req         \* the authenticateRequest invocation of the last run, if it was one

vars == <<ctor, authInfo, store, login, password, ops, req>>

\* The number of invocations of isLoggedIn, ensureAuthentication, logIn, logOut
\* and setCredentials in one behaviour of Spec, and in one of SpecRequests.
MaxOps == 2
MaxRequestOps == 1

NULL == "null"
UNDEF == "undefined"
JSFALSE == "false"
JSTRUE == "true"
ABSENT == "absent"      \* a header the request does not carry
NONE == "none"

\* if ( v ): the falsy values among the ones used here.
Truthy(v) == v \notin {JSFALSE, NULL, UNDEF, ""}

\* o.f of a JavaScript object: undefined when the object has no such property.
Prop(o, f) == IF f \in DOMAIN o THEN o[f] ELSE UNDEF

-----------------------------------------------------------------------------
(* The storage keys and the storage.                                       *)

KEY_SESSION_NAME == "ezpRestClient.sessionName"
KEY_SESSION_ID == "ezpRestClient.sessionId"
KEY_SESSION_HREF == "ezpRestClient.sessionHref"
KEY_CSRF_TOKEN == "ezpRestClient.csrfToken"

Keys == {KEY_SESSION_NAME, KEY_SESSION_ID, KEY_SESSION_HREF, KEY_CSRF_TOKEN}

EmptyStore == [k \in Keys |-> NULL]

\* StorageAbstraction: getItem gives the stored value, or null for a key that
\* was never set or was removed; setItem writes under any key, one the storage
\* has not seen before included; removeItem leaves null under the key.
getItem(st, key) == IF key \in DOMAIN st THEN st[key] ELSE NULL
setItem(st, key, value) ==
    [k \in DOMAIN st \cup {key} |-> IF k = key THEN value ELSE st[k]]
removeItem(st, key) ==
    [k \in DOMAIN st |-> IF k = key THEN NULL ELSE st[k]]

\* _resetStorage that leaves the session id.
_resetStorage_keepsSessionId(st) ==
    removeItem(removeItem(removeItem(st,
        KEY_SESSION_NAME), KEY_SESSION_HREF), KEY_CSRF_TOKEN)

_resetStorage(st) ==
    removeItem(removeItem(removeItem(removeItem(st,
        KEY_SESSION_NAME), KEY_SESSION_ID), KEY_SESSION_HREF), KEY_CSRF_TOKEN)

\* _storeSessionInfo that leaves the CSRF token out.
_storeSessionInfo_withoutToken(st, session) ==
    setItem(setItem(setItem(st,
        KEY_SESSION_NAME, Prop(session, "name")),
        KEY_SESSION_HREF, Prop(session, "href")),
        KEY_SESSION_ID, Prop(session, "identifier"))

\* _storeSessionInfo that keeps a session name already stored.
_storeSessionInfo_keepsStoredName(st, session) ==
    setItem(setItem(setItem(setItem(st,
        KEY_SESSION_NAME, IF getItem(st, KEY_SESSION_NAME) # NULL
                          THEN getItem(st, KEY_SESSION_NAME)
                          ELSE Prop(session, "name")),
        KEY_SESSION_HREF, Prop(session, "href")),
        KEY_SESSION_ID, Prop(session, "identifier")),
        KEY_CSRF_TOKEN, Prop(session, "csrfToken"))

_storeSessionInfo(st, session) ==
    setItem(setItem(setItem(setItem(st,
        KEY_SESSION_NAME, Prop(session, "name")),
        KEY_SESSION_HREF, Prop(session, "href")),
        KEY_SESSION_ID, Prop(session, "identifier")),
        KEY_CSRF_TOKEN, Prop(session, "csrfToken"))

-----------------------------------------------------------------------------
(* The user service (the collaborator) and what it may answer.             *)

\* UserService.newSessionCreateStruct, as the test's mock user service builds it.
newSessionCreateStruct(l, p) ==
    [body |-> [SessionInput |-> [login |-> l, password |-> p]]]

\* Session objects of create-session responses.
SessionABC ==
    [name |-> "SESSID", _href |-> "/sessions/abc", identifier |-> "abc", csrfToken |-> "tok1"]
SessionXYZ ==
    [name |-> "eZSESSID", _href |-> "/sessions/xyz", identifier |-> "xyz", csrfToken |-> "tok2"]

\* A Session object that lacks the property f.
Lacking(session, f) == [g \in (DOMAIN session) \ {f} |-> session[g]]

\* The create-session responses the service may hand to its callback, by name:
\* two complete sessions, SessionABC lacking one property (the identifier, as
\* in the response of the test's mock user service, or the csrfToken), and a
\* response whose document holds no Session object.
CompleteResponses == {"created abc", "created xyz"}
LackingResponses ==
    {"created abc without identifier", "created abc without csrfToken"}
CreatedResponses == CompleteResponses \cup LackingResponses \cup {"no Session"}

\* sessionResponse.document
document(sessionResponse) ==
    CASE sessionResponse = "created abc" -> [Session |-> SessionABC]
      [] sessionResponse = "created xyz" -> [Session |-> SessionXYZ]
      [] sessionResponse = "created abc without identifier" ->
            [Session |-> Lacking(SessionABC, "identifier")]
      [] sessionResponse = "created abc without csrfToken" ->
            [Session |-> Lacking(SessionABC, "csrfToken")]
      [] OTHER -> [ErrorMessage |-> "no session"]

\* The (error, result) pair of a failing service call.
FailureAnswers == {<<"error 401", "response 401">>}

\* What createSession may hand to its callback.
CreateAnswers == FailureAnswers \cup {<<JSFALSE, r>> : r \in CreatedResponses}

\* What refreshSession and deleteSession may hand to their callbacks.
PlainAnswers == FailureAnswers \cup {<<JSFALSE, JSTRUE>>}

-----------------------------------------------------------------------------
(* Construction.                                                           *)

\* The credentials setCredentials is called with.
Credentials == {[login |-> "editor", password |-> "secret"]}

SessionDescriptor ==
    [name |-> "SESSID", identifier |-> "old", href |-> "/sessions/old", csrfToken |-> "tok0"]

\* The authInfo arguments tried: <<>> is a call without authInfo.
AuthInfos ==
    {<<>>,
     <<[login |-> "admin", password |-> "publish"]>>,
     <<SessionDescriptor>>,
     <<[login |-> "admin"]>>,
     <<[login |-> "admin", password |-> ""]>>,
     <<[name |-> "SESSID", identifier |-> "old", href |-> "/sessions/old"]>>,
     <<[name |-> "SESSID", identifier |-> "old", href |-> "/sessions/old", csrfToken |-> ""]>>}

\* What the storage handed to the constructor may hold: nothing, or the
\* session an agent of an earlier page load left there.
StoredBefore ==
    [name |-> "SESSID", identifier |-> "prev", href |-> "/sessions/prev", csrfToken |-> "tok9"]
InitialStores == {EmptyStore, _storeSessionInfo(EmptyStore, StoredBefore)}

\* The constructor without the test of authInfo.csrfToken.
SessionAuthAgent_tokenNotTested(info, storage) ==
    LET fresh == [ctor |-> "ok", login |-> "", password |-> "", store |-> storage]
    IN  IF info = <<>> THEN fresh
        ELSE LET a == info[1]
             IN  IF Truthy(Prop(a, "login")) /\ Truthy(Prop(a, "password"))
                 THEN [fresh EXCEPT !.login = Prop(a, "login"),
                                    !.password = Prop(a, "password")]
                 ELSE IF /\ Truthy(Prop(a, "identifier"))
                         /\ Truthy(Prop(a, "name"))
                         /\ Truthy(Prop(a, "href"))
                 THEN [fresh EXCEPT !.store = _storeSessionInfo(storage, a)]
                 ELSE [fresh EXCEPT !.ctor = "threw"]

\* The constructor that also keeps the credentials in the storage.
SessionAuthAgent_storesCredentials(info, storage) ==
    LET fresh == [ctor |-> "ok", login |-> "", password |-> "", store |-> storage]
    IN  IF info = <<>> THEN fresh
        ELSE LET a == info[1]
             IN  IF Truthy(Prop(a, "login")) /\ Truthy(Prop(a, "password"))
                 THEN [fresh EXCEPT !.login = Prop(a, "login"),
                                    !.password = Prop(a, "password"),
                                    !.store = setItem(setItem(storage,
                                        "ezpRestClient.login", Prop(a, "login")),
                                        "ezpRestClient.password", Prop(a, "password"))]
                 ELSE IF /\ Truthy(Prop(a, "csrfToken"))
                         /\ Truthy(Prop(a, "identifier"))
                         /\ Truthy(Prop(a, "name"))
                         /\ Truthy(Prop(a, "href"))
                 THEN [fresh EXCEPT !.store = _storeSessionInfo(storage, a)]
                 ELSE [fresh EXCEPT !.ctor = "threw"]

\* The constructor: the fields of the new agent, or a throw.
SessionAuthAgent(info, storage) ==
    LET fresh == [ctor |-> "ok", login |-> "", password |-> "", store |-> storage]
    IN  IF info = <<>> THEN fresh
        ELSE LET a == info[1]
             IN  IF Truthy(Prop(a, "login")) /\ Truthy(Prop(a, "password"))
                 THEN [fresh EXCEPT !.login = Prop(a, "login"),
                                    !.password = Prop(a, "password")]
                 ELSE IF /\ Truthy(Prop(a, "csrfToken"))
                         /\ Truthy(Prop(a, "identifier"))
                         /\ Truthy(Prop(a, "name"))
                         /\ Truthy(Prop(a, "href"))
                 THEN [fresh EXCEPT !.store = _storeSessionInfo(storage, a)]
                 ELSE [fresh EXCEPT !.ctor = "threw"]

-----------------------------------------------------------------------------
(* The methods that take a callback.  An invocation is a record:           *)
(*   kind        the method the caller invoked                             *)
(*   wait        the service call whose callback is outstanding, or "none" *)
(*   calls       the user service calls made on its behalf, in order       *)
(*   answers     the (error, result) pairs the service handed back         *)
(*   cb          the (error, result) pairs handed to the caller's callback *)
(*   storeAtCall the storage when the caller invoked the method            *)
(*   credsAtCall this._login and this._password at that moment             *)
(*   storeBefore the storage when the run that called the callback began   *)
(*   storeAtCb   the storage when the caller's callback was called         *)
(*   alone       no other invocation has run since this one was invoked    *)
(*   threw       a run of this invocation ended in a TypeError             *)

NewOp(kind, st) ==
    [kind |-> kind, wait |-> NONE, calls |-> <<>>, answers |-> <<>>, cb |-> <<>>,
     storeAtCall |-> st, credsAtCall |-> [login |-> login, password |-> password],
     storeBefore |-> st, storeAtCb |-> st,
     alone |-> TRUE, threw |-> FALSE]

\* callback(error, result) / done(error, result): the caller's callback.
Callback(o, st, error, result) ==
    [o EXCEPT !.cb = Append(@, <<error, result>>), !.storeAtCb = st]

\* A synchronous call of the user service.
Call(o, fn, args) ==
    [o EXCEPT !.calls = Append(@, [fn |-> fn, args |-> args])]

\* A call of the user service that takes a callback, which is now outstanding.
Request(o, fn, args) ==
    [Call(o, fn, args) EXCEPT !.wait = fn]

\* The run in which the service answers the outstanding call begins.
Answered(o, st, error, result) ==
    [o EXCEPT !.wait = NONE, !.answers = Append(@, <<error, result>>),
              !.storeBefore = st]

\* SessionInfo with the href taken from the identifier.
SessionInfo_hrefFromIdentifier(session) ==
    [name |-> Prop(session, "name"),
     href |-> Prop(session, "identifier"),
     identifier |-> Prop(session, "identifier"),
     csrfToken |-> Prop(session, "csrfToken")]

\* what ensureAuthentication hands to _storeSessionInfo
SessionInfo(session) ==
    [name |-> Prop(session, "name"),
     href |-> Prop(session, "_href"),
     identifier |-> Prop(session, "identifier"),
     csrfToken |-> Prop(session, "csrfToken")]

\* Each method below gives the invocation and the storage as the run leaves them.
Outcome(o, st) == [op |-> o, store |-> st]

\* ensureAuthentication without the test of the stored session id.
ensureAuthentication_alwaysCreates(o, st) ==
    Outcome(Request(Call(o, "newSessionCreateStruct", <<login, password>>),
                    "createSession",
                    <<newSessionCreateStruct(login, password)>>), st)

\* ensureAuthentication with the credentials as they were when the caller
\* invoked the method.
ensureAuthentication_credentialsAtCall(o, st) ==
    IF getItem(st, KEY_SESSION_ID) # NULL
    THEN Outcome(Callback(o, st, JSFALSE, JSTRUE), st)
    ELSE Outcome(Request(Call(o, "newSessionCreateStruct",
                              <<o.credsAtCall.login, o.credsAtCall.password>>),
                         "createSession",
                         <<newSessionCreateStruct(o.credsAtCall.login,
                                                  o.credsAtCall.password)>>), st)

\* ensureAuthentication that issues nothing while another invocation's
\* createSession is outstanding.
ensureAuthentication_oneAtATime(o, st) ==
    IF getItem(st, KEY_SESSION_ID) # NULL
    THEN Outcome(Callback(o, st, JSFALSE, JSTRUE), st)
    ELSE IF \E k \in DOMAIN ops : ops[k].wait = "createSession"
    THEN Outcome(o, st)
    ELSE Outcome(Request(Call(o, "newSessionCreateStruct", <<login, password>>),
                         "createSession",
                         <<newSessionCreateStruct(login, password)>>), st)

ensureAuthentication(o, st) ==
    IF getItem(st, KEY_SESSION_ID) # NULL
    THEN Outcome(Callback(o, st, JSFALSE, JSTRUE), st)
    ELSE Outcome(Request(Call(o, "newSessionCreateStruct", <<login, password>>),
                         "createSession",
                         <<newSessionCreateStruct(login, password)>>), st)

\* createSessionCallback that asks again when the service reports an error.
createSessionCallback_retries(o, st, error, sessionResponse) ==
    IF Truthy(error)
    THEN Outcome(Request(o, "createSession",
                         <<newSessionCreateStruct(login, password)>>), st)
    ELSE IF "Session" \notin DOMAIN document(sessionResponse)
    THEN Outcome([o EXCEPT !.threw = TRUE], st)
    ELSE LET session == document(sessionResponse).Session
             stored == _storeSessionInfo(st, SessionInfo(session))
         IN  Outcome(Callback(o, stored, JSFALSE, sessionResponse), stored)

\* the function ensureAuthentication hands to createSession
createSessionCallback(o, st, error, sessionResponse) ==
    IF Truthy(error)
    THEN Outcome(Callback(o, st, error, sessionResponse), st)
    ELSE IF "Session" \notin DOMAIN document(sessionResponse)
    THEN Outcome([o EXCEPT !.threw = TRUE], st)
    ELSE LET session == document(sessionResponse).Session
             stored == _storeSessionInfo(st, SessionInfo(session))
         IN  Outcome(Callback(o, stored, JSFALSE, sessionResponse), stored)

\* isLoggedIn without the test of the stored session id.
isLoggedIn_alwaysRefreshes(o, st) ==
    Outcome(Request(o, "refreshSession", <<getItem(st, KEY_SESSION_ID)>>), st)

\* isLoggedIn that hands the stored href to refreshSession.
isLoggedIn_refreshesHref(o, st) ==
    LET sessionId == getItem(st, KEY_SESSION_ID)
    IN  IF sessionId = NULL
        THEN Outcome(Callback(o, st, JSTRUE, JSFALSE), st)
        ELSE Outcome(Request(o, "refreshSession", <<getItem(st, KEY_SESSION_HREF)>>), st)

isLoggedIn(o, st) ==
    LET sessionId == getItem(st, KEY_SESSION_ID)
    IN  IF sessionId = NULL
        THEN Outcome(Callback(o, st, JSTRUE, JSFALSE), st)
        ELSE Outcome(Request(o, "refreshSession", <<sessionId>>), st)

\* refreshSessionCallback that keeps the storage when the refresh fails.
refreshSessionCallback_keepsStorage(o, st, error, result) ==
    Outcome(Callback(o, st, error, result), st)

\* refreshSessionCallback that resets the storage whatever the service answers.
refreshSessionCallback_alwaysResets(o, st, error, result) ==
    Outcome(Callback(o, _resetStorage(st), error, result), _resetStorage(st))

\* the function isLoggedIn hands to refreshSession
refreshSessionCallback(o, st, error, result) ==
    LET after == IF Truthy(error) THEN _resetStorage(st) ELSE st
    IN  Outcome(Callback(o, after, error, result), after)

\* logOutDone that reports the log out to logIn's caller before it goes on.
logOutDone_alsoReports(o, st, error, result) ==
    IF o.kind = "logIn"
    THEN ensureAuthentication(Callback(o, st, error, result), st)
    ELSE Outcome(Callback(o, st, error, result), st)

\* done(error, result) of logOut: the caller's callback, or the function logIn
\* hands to logOut, which ignores both arguments.
logOutDone(o, st, error, result) ==
    IF o.kind = "logIn"
    THEN ensureAuthentication(o, st)
    ELSE Outcome(Callback(o, st, error, result), st)

\* logOut without the test of the stored session href.
logOut_alwaysDeletes(o, st) ==
    Outcome(Request(o, "deleteSession", <<getItem(st, KEY_SESSION_HREF)>>), st)

logOut(o, st) ==
    LET sessionHref == getItem(st, KEY_SESSION_HREF)
    IN  IF sessionHref = NULL
        THEN logOutDone(o, st, JSFALSE, JSTRUE)
        ELSE Outcome(Request(o, "deleteSession", <<sessionHref>>), st)

\* deleteSessionCallback that resets the storage whatever the service answers.
deleteSessionCallback_alwaysResets(o, st, error, response) ==
    logOutDone(o, _resetStorage(st), error, response)

\* deleteSessionCallback that reports booleans of its own.
deleteSessionCallback_reportsBooleans(o, st, error, response) ==
    LET after == IF ~Truthy(error) THEN _resetStorage(st) ELSE st
    IN  IF Truthy(error)
        THEN logOutDone(o, after, JSTRUE, JSFALSE)
        ELSE logOutDone(o, after, JSFALSE, JSTRUE)

\* the function logOut hands to deleteSession
deleteSessionCallback(o, st, error, response) ==
    LET after == IF ~Truthy(error) THEN _resetStorage(st) ELSE st
    IN  logOutDone(o, after, error, response)

\* logIn that does not log out first.
logIn_withoutLogOut(o, st) == ensureAuthentication(o, st)

logIn(o, st) ==
    IF getItem(st, KEY_SESSION_ID) # NULL
    THEN logOut(o, st)
    ELSE ensureAuthentication(o, st)

-----------------------------------------------------------------------------
(* authenticateRequest.  A method name is a sequence of characters.        *)

LowerCase == <<"a","b","c","d","e","f","g","h","i","j","k","l","m",
               "n","o","p","q","r","s","t","u","v","w","x","y","z">>
UpperCase == <<"A","B","C","D","E","F","G","H","I","J","K","L","M",
               "N","O","P","Q","R","S","T","U","V","W","X","Y","Z">>

\* toUpperCase left out: the method is looked up as it is spelled.
toUpperCase_asSpelled(str) == str

\* String.prototype.toUpperCase on the characters used here.
toUpperCase(str) ==
    [i \in DOMAIN str |->
        IF \E k \in DOMAIN LowerCase : LowerCase[k] = str[i]
        THEN UpperCase[CHOOSE k \in DOMAIN LowerCase : LowerCase[k] = str[i]]
        ELSE str[i]]

SAFE_METHODS ==
    {<<"G","E","T">>, <<"H","E","A","D">>, <<"O","P","T","I","O","N","S">>,
     <<"T","R","A","C","E">>}

CSRF_HEADER == "X-CSRF-Token"
HeaderNames == {CSRF_HEADER, "Accept"}

\* The requests tried: a method in some spelling (or no method property), a
\* body, and a headers mapping, "absent" for a header the request does not
\* carry.
Methods ==
    {<<"G","E","T">>, <<"H","e","a","d">>, <<"O","P","T","I","O","N","S">>,
     <<"t","r","a","c","e">>, <<"P","O","S","T">>, <<"p","u","t">>,
     <<"G","E","T","S">>}
NoHeaders == [h \in HeaderNames |-> ABSENT]
HeaderMaps ==
    {NoHeaders,
     [h \in HeaderNames |-> IF h = CSRF_HEADER THEN "stale" ELSE "application/json"]}
Requests ==
    {[method |-> m, body |-> "{}", headers |-> hs] : m \in Methods, hs \in HeaderMaps}
        \cup {[headers |-> NoHeaders]}

\* authenticateRequest without the test of the token against null.
authenticateRequest_noNullTest(request, st) ==
    LET token == getItem(st, KEY_CSRF_TOKEN)
        record == [given |-> request, request |-> request, token |-> token,
                   cb |-> <<>>, threw |-> FALSE]
    IN  IF "method" \notin DOMAIN request
        THEN [record EXCEPT !.threw = TRUE]
        ELSE LET left ==
                    IF toUpperCase(request.method) \notin SAFE_METHODS
                    THEN [request EXCEPT !.headers[CSRF_HEADER] = token]
                    ELSE request
             IN  [record EXCEPT !.request = left, !.cb = <<JSFALSE>>]

\* authenticateRequest that reads the session id where it should read the token.
authenticateRequest_sessionIdAsToken(request, st) ==
    LET token == getItem(st, KEY_SESSION_ID)
        record == [given |-> request, request |-> request, token |-> token,
                   cb |-> <<>>, threw |-> FALSE]
    IN  IF "method" \notin DOMAIN request
        THEN [record EXCEPT !.threw = TRUE]
        ELSE LET left ==
                    IF toUpperCase(request.method) \notin SAFE_METHODS /\ token # NULL
                    THEN [request EXCEPT !.headers[CSRF_HEADER] = token]
                    ELSE request
             IN  [record EXCEPT !.request = left, !.cb = <<JSFALSE>>]

\* authenticateRequest that leaves a token header the request already carries.
authenticateRequest_keepsExistingHeader(request, st) ==
    LET token == getItem(st, KEY_CSRF_TOKEN)
        record == [given |-> request, request |-> request, token |-> token,
                   cb |-> <<>>, threw |-> FALSE]
    IN  IF "method" \notin DOMAIN request
        THEN [record EXCEPT !.threw = TRUE]
        ELSE LET left ==
                    IF /\ toUpperCase(request.method) \notin SAFE_METHODS
                       /\ token # NULL
                       /\ request.headers[CSRF_HEADER] = ABSENT
                    THEN [request EXCEPT !.headers[CSRF_HEADER] = token]
                    ELSE request
             IN  [record EXCEPT !.request = left, !.cb = <<JSFALSE>>]

\* The record of one invocation: the request as given, the request as left,
\* the token read, and the arguments the callback got.
authenticateRequest(request, st) ==
    LET token == getItem(st, KEY_CSRF_TOKEN)
        record == [given |-> request, request |-> request, token |-> token,
                   cb |-> <<>>, threw |-> FALSE]
    IN  IF "method" \notin DOMAIN request
        THEN [record EXCEPT !.threw = TRUE]
        ELSE LET left ==
                    IF toUpperCase(request.method) \notin SAFE_METHODS /\ token # NULL
                    THEN [request EXCEPT !.headers[CSRF_HEADER] = token]
                    ELSE request
             IN  [record EXCEPT !.request = left, !.cb = <<JSFALSE>>]

setCredentials(credentials) ==
    [login |-> Prop(credentials, "login"), password |-> Prop(credentials, "password")]

-----------------------------------------------------------------------------
(* The state machine.                                                      *)

Init ==
    /\ authInfo \in AuthInfos
    /\ \E storage \in InitialStores :
          LET agent == SessionAuthAgent(authInfo, storage)
          IN  /\ ctor = agent.ctor
              /\ store = agent.store
              /\ login = agent.login
              /\ password = agent.password
    /\ ops = <<>>
    /\ req = <<>>

\* Every outstanding invocation other than the i-th has seen another one run.
Disturb(os, i) ==
    [j \in DOMAIN os |->
        IF j # i /\ os[j].wait # NONE THEN [os[j] EXCEPT !.alone = FALSE] ELSE os[j]]

\* The caller invokes a method: out is what the method's run left.
Invoked(out) ==
    /\ ops' = Append(Disturb(ops, 0), out.op)
    /\ store' = out.store
    /\ req' = <<>>
    /\ UNCHANGED <<ctor, authInfo, login, password>>

\* The service answers the call the i-th invocation waits for.
Resumed(i, out) ==
    /\ ops' = [Disturb(ops, i) EXCEPT ![i] = out.op]
    /\ store' = out.store
    /\ req' = <<>>
    /\ UNCHANGED <<ctor, authInfo, login, password>>

CallEnsureAuthentication ==
    /\ ctor = "ok"
    /\ Invoked(ensureAuthentication(NewOp("ensureAuthentication", store), store))

CallIsLoggedIn ==
    /\ ctor = "ok"
    /\ Invoked(isLoggedIn(NewOp("isLoggedIn", store), store))

CallLogIn ==
    /\ ctor = "ok"
    /\ Invoked(logIn(NewOp("logIn", store), store))

CallLogOut ==
    /\ ctor = "ok"
    /\ Invoked(logOut(NewOp("logOut", store), store))

CreateSessionAnswers(i) ==
    /\ ops[i].wait = "createSession"
    /\ \E a \in CreateAnswers :
          Resumed(i, createSessionCallback(Answered(ops[i], store, a[1], a[2]),
                                           store, a[1], a[2]))

RefreshSessionAnswers(i) ==
    /\ ops[i].wait = "refreshSession"
    /\ \E a \in PlainAnswers :
          Resumed(i, refreshSessionCallback(Answered(ops[i], store, a[1], a[2]),
                                            store, a[1], a[2]))

DeleteSessionAnswers(i) ==
    /\ ops[i].wait = "deleteSession"
    /\ \E a \in PlainAnswers :
          Resumed(i, deleteSessionCallback(Answered(ops[i], store, a[1], a[2]),
                                           store, a[1], a[2]))

CallSetCredentials ==
    /\ ctor = "ok"
    /\ \E c \in Credentials :
          /\ login' = setCredentials(c).login
          /\ password' = setCredentials(c).password
    /\ ops' = Append(Disturb(ops, 0), NewOp("setCredentials", store))
    /\ req' = <<>>
    /\ UNCHANGED <<ctor, authInfo, store>>

CallAuthenticateRequest ==
    /\ ctor = "ok"
    /\ \E r \in Requests : req' = <<authenticateRequest(r, store)>>
    /\ UNCHANGED <<ctor, authInfo, store, login, password, ops>>

\* The life cycle: at most MaxOps invocations, the service's answers, and
\* setCredentials.
Next ==
    \/ Len(ops) < MaxOps /\ CallEnsureAuthentication
    \/ Len(ops) < MaxOps /\ CallIsLoggedIn
    \/ Len(ops) < MaxOps /\ CallLogIn
    \/ Len(ops) < MaxOps /\ CallLogOut
    \/ \E i \in DOMAIN ops : CreateSessionAnswers(i)
    \/ \E i \in DOMAIN ops : RefreshSessionAnswers(i)
    \/ \E i \in DOMAIN ops : DeleteSessionAnswers(i)
    \/ Len(ops) < MaxOps /\ CallSetCredentials

Spec == Init /\ [][Next]_vars

\* The request hook: authenticateRequest on every request of Requests, in
\* every state at most MaxRequestOps invocations lead to.
NextRequests ==
    \/ Len(ops) < MaxRequestOps /\ CallEnsureAuthentication
    \/ Len(ops) < MaxRequestOps /\ CallIsLoggedIn
    \/ Len(ops) < MaxRequestOps /\ CallLogIn
    \/ Len(ops) < MaxRequestOps /\ CallLogOut
    \/ \E i \in DOMAIN ops : CreateSessionAnswers(i)
    \/ \E i \in DOMAIN ops : RefreshSessionAnswers(i)
    \/ \E i \in DOMAIN ops : DeleteSessionAnswers(i)
    \/ Len(ops) < MaxRequestOps /\ CallSetCredentials
    \/ CallAuthenticateRequest

SpecRequests == Init /\ [][NextRequests]_vars

-----------------------------------------------------------------------------
(* Properties.                                                             *)

\* A storage key holds a value: it is neither null nor undefined.
HasValue(v) == v \notin {NULL, UNDEF}

\* The createSession calls of an invocation.
CreateCalls(o) == SelectSeq(o.calls, LAMBDA c : c.fn = "createSession")

\* The service reported an error to the n-th answer of an invocation.
Failed(o, n) == Len(o.answers) >= n /\ Truthy(o.answers[n][1])
Succeeded(o, n) == Len(o.answers) >= n /\ ~Truthy(o.answers[n][1])

\* Two method names are equal when compared case-insensitively.
SameIgnoringCase(a, b) ==
    /\ Len(a) = Len(b)
    /\ \A i \in DOMAIN a :
          \/ a[i] = b[i]
          \/ \E k \in DOMAIN LowerCase : {a[i], b[i]} = {LowerCase[k], UpperCase[k]}

\* The method is GET, HEAD, OPTIONS or TRACE, compared case-insensitively.
IsSafeMethod(m) == \E n \in SAFE_METHODS : SameIgnoringCase(m, n)

\* C1: in every reachable state the storage holds no session at all (the four
\* keys are absent) or a complete one (each of the four keys holds a value);
\* a session lacking a field is never persisted.
C1_NoPartialSession ==
    \/ \A k \in Keys : store[k] = NULL
    \/ \A k \in Keys : HasValue(store[k])

\* C2: an ensureAuthentication invoked on an empty storage builds one create
\* struct from the login and password the agent holds and issues exactly one
\* createSession with it; when that request succeeds the storage holds the
\* name, _href, identifier and csrfToken of the Session of the response.
C2_FirstEnsureCreatesAndStores ==
    \A i \in DOMAIN ops :
        LET o == ops[i]
        IN  (o.kind = "ensureAuthentication" /\ o.storeAtCall = EmptyStore) =>
              /\ Len(o.calls) = 2
              /\ o.calls[1].fn = "newSessionCreateStruct"
              /\ o.calls[1].args = <<o.credsAtCall.login, o.credsAtCall.password>>
              /\ o.calls[2].fn = "createSession"
              /\ o.calls[2].args =
                    <<[body |-> [SessionInput |-> o.credsAtCall]]>>
              /\ (Succeeded(o, 1) /\ "Session" \in DOMAIN document(o.answers[1][2])) =>
                    LET Session == document(o.answers[1][2]).Session
                    IN  /\ Len(o.cb) = 1
                        /\ o.storeAtCb[KEY_SESSION_NAME] = Prop(Session, "name")
                        /\ o.storeAtCb[KEY_SESSION_HREF] = Prop(Session, "_href")
                        /\ o.storeAtCb[KEY_SESSION_ID] = Prop(Session, "identifier")
                        /\ o.storeAtCb[KEY_CSRF_TOKEN] = Prop(Session, "csrfToken")

\* C2 witness: the agent was constructed with admin/publish on an empty
\* storage, its first invocation is ensureAuthentication, the service answered
\* with the session abc, and the storage holds that session.
C2_Witness ==
    /\ authInfo = <<[login |-> "admin", password |-> "publish"]>>
    /\ Len(ops) >= 1
    /\ ops[1].kind = "ensureAuthentication"
    /\ ops[1].storeAtCall = EmptyStore
    /\ ops[1].answers = << <<JSFALSE, "created abc">> >>
    /\ Len(ops[1].cb) = 1
    /\ store = [k \in Keys |->
                  CASE k = KEY_SESSION_NAME -> "SESSID"
                    [] k = KEY_SESSION_ID -> "abc"
                    [] k = KEY_SESSION_HREF -> "/sessions/abc"
                    [] OTHER -> "tok1"]

\* C3: an ensureAuthentication invoked while a session id is in the storage
\* calls the user service not at all, leaves the four keys as they were and
\* has called its callback with (false, true) when it returns.
C3_EnsureWithSessionIsNoOp ==
    \A i \in DOMAIN ops :
        LET o == ops[i]
        IN  (o.kind = "ensureAuthentication" /\ o.storeAtCall[KEY_SESSION_ID] # NULL) =>
              /\ o.calls = <<>>
              /\ o.wait = NONE
              /\ o.cb = << <<JSFALSE, JSTRUE>> >>
              /\ o.storeAtCb = o.storeAtCall

\* C3 witness: an ensureAuthentication was invoked with the session abc stored.
C3_Witness ==
    \E i \in DOMAIN ops :
        /\ ops[i].kind = "ensureAuthentication"
        /\ ops[i].storeAtCall[KEY_SESSION_ID] = "abc"
        /\ Len(ops[i].cb) = 1
        /\ store[KEY_SESSION_ID] = "abc"

\* C4: when createSession reports an error to an ensureAuthentication invoked
\* with no stored session, the run that handles the error writes nothing to
\* the storage (the four keys are still absent unless another invocation ran
\* meanwhile), no second createSession is issued, and the callback gets the
\* failure.
C4_CreateFailureWritesNothing ==
    \A i \in DOMAIN ops :
        LET o == ops[i]
        IN  (/\ o.kind = "ensureAuthentication"
             /\ o.storeAtCall[KEY_SESSION_ID] = NULL
             /\ Failed(o, 1)) =>
              /\ o.storeAtCb = o.storeBefore
              /\ o.alone => o.storeAtCb = EmptyStore
              /\ Len(CreateCalls(o)) = 1
              /\ o.wait = NONE
              /\ Len(o.cb) = 1
              /\ Truthy(o.cb[1][1])

\* C4 witness: createSession failed for an ensureAuthentication that ran
\* alone, and the storage is empty.
C4_Witness ==
    \E i \in DOMAIN ops :
        /\ ops[i].kind = "ensureAuthentication"
        /\ ops[i].answers = << <<"error 401", "response 401">> >>
        /\ ops[i].alone
        /\ Len(ops[i].cb) = 1
        /\ store = EmptyStore

\* C5: when refreshSession reports an error to an isLoggedIn invoked with a
\* stored session id, the four keys are absent when the callback is called.
C5_RefreshFailureClearsStore ==
    \A i \in DOMAIN ops :
        LET o == ops[i]
        IN  (/\ o.kind = "isLoggedIn"
             /\ o.storeAtCall[KEY_SESSION_ID] # NULL
             /\ Failed(o, 1)) =>
              /\ Len(o.cb) = 1
              /\ o.storeAtCb = EmptyStore

\* C5 witness: an isLoggedIn invoked with the session of the constructor's
\* descriptor stored was answered with an error.
C5_Witness ==
    \E i \in DOMAIN ops :
        /\ ops[i].kind = "isLoggedIn"
        /\ ops[i].storeAtCall[KEY_SESSION_ID] = "old"
        /\ ops[i].calls = << [fn |-> "refreshSession", args |-> <<"old">>] >>
        /\ Failed(ops[i], 1)
        /\ Len(ops[i].cb) = 1
        /\ store = EmptyStore

\* C6: an isLoggedIn invoked with no session id in the storage calls its
\* callback with (true, false), calls the user service not at all and leaves
\* the storage as it was.
C6_NotLoggedInWithoutRequest ==
    \A i \in DOMAIN ops :
        LET o == ops[i]
        IN  (o.kind = "isLoggedIn" /\ o.storeAtCall[KEY_SESSION_ID] = NULL) =>
              /\ o.cb = << <<JSTRUE, JSFALSE>> >>
              /\ o.calls = <<>>
              /\ o.wait = NONE
              /\ o.storeAtCb = o.storeAtCall

\* C6 witness: an isLoggedIn was invoked on an empty storage.
C6_Witness ==
    \E i \in DOMAIN ops :
        /\ ops[i].kind = "isLoggedIn"
        /\ ops[i].storeAtCall = EmptyStore
        /\ Len(ops[i].cb) = 1

\* C7: a logOut invoked with a stored href issues deleteSession for that href;
\* when the delete succeeds the four keys are absent when the callback is
\* called; when it fails the run that handles the failure leaves the storage
\* as it found it (as it was when logOut was invoked, if no other invocation
\* ran meanwhile), so that a logOut that follows on that storage issues
\* deleteSession with the same href.
C7_LogOutClearsOnlyOnSuccess ==
    \A i \in DOMAIN ops :
        LET o == ops[i]
        IN  (o.kind = "logOut" /\ o.storeAtCall[KEY_SESSION_HREF] # NULL) =>
              /\ o.calls = << [fn |-> "deleteSession",
                               args |-> <<o.storeAtCall[KEY_SESSION_HREF]>>] >>
              /\ Succeeded(o, 1) => Len(o.cb) = 1 /\ o.storeAtCb = EmptyStore
              /\ Failed(o, 1) =>
                    /\ Len(o.cb) = 1
                    /\ o.storeAtCb = o.storeBefore
                    /\ o.alone => o.storeAtCb = o.storeAtCall
                    /\ \A j \in DOMAIN ops :
                          (/\ j = i + 1
                           /\ o.alone
                           /\ ops[j].kind = "logOut"
                           /\ ops[j].storeAtCall = o.storeAtCb) =>
                              ops[j].calls = o.calls

\* C7 witness: a logOut whose delete failed is followed by a second logOut,
\* which asked to delete the same href.
C7_Witness ==
    /\ Len(ops) = 2
    /\ ops[1].kind = "logOut"
    /\ ops[1].alone
    /\ Failed(ops[1], 1)
    /\ Len(ops[1].cb) = 1
    /\ ops[2].kind = "logOut"
    /\ ops[2].calls = << [fn |-> "deleteSession", args |-> <<"/sessions/old">>] >>
    /\ ops[2].storeAtCall = ops[1].storeAtCall

\* C8: a logOut invoked with no session href in the storage does not call
\* deleteSession, leaves the storage as it was and calls its callback with
\* (false, true); so a logOut that follows a successful logOut issues no
\* further delete.
C8_LogOutWithoutSessionIsNoOp ==
    \A i \in DOMAIN ops :
        LET o == ops[i]
        IN  /\ (o.kind = "logOut" /\ o.storeAtCall[KEY_SESSION_HREF] = NULL) =>
                  /\ o.calls = <<>>
                  /\ o.wait = NONE
                  /\ o.cb = << <<JSFALSE, JSTRUE>> >>
                  /\ o.storeAtCb = o.storeAtCall
            /\ \A j \in DOMAIN ops :
                  (/\ j = i + 1
                   /\ o.kind = "logOut"
                   /\ Succeeded(o, 1)
                   /\ ops[j].kind = "logOut"
                   /\ ops[j].storeAtCall = o.storeAtCb) =>
                      ops[j].calls = <<>>

\* C8 witness: a logOut whose delete succeeded is followed by a second logOut,
\* which found no href and reported success.
C8_Witness ==
    /\ Len(ops) = 2
    /\ ops[1].kind = "logOut"
    /\ Succeeded(ops[1], 1)
    /\ ops[2].kind = "logOut"
    /\ ops[2].storeAtCall = EmptyStore
    /\ ops[2].calls = <<>>
    /\ ops[2].cb = << <<JSFALSE, JSTRUE>> >>

\* C9: authenticateRequest leaves a request whose method is GET, HEAD, OPTIONS
\* or TRACE in any spelling of upper and lower case exactly as it was, headers
\* included, whether or not a csrf token is stored.
C9_SafeMethodsUntouched ==
    \A n \in DOMAIN req :
        ("method" \in DOMAIN req[n].given /\ IsSafeMethod(req[n].given.method)) =>
            /\ req[n].request = req[n].given
            /\ req[n].cb = <<JSFALSE>>

\* C9 witness: a request with the method "trace" went through
\* authenticateRequest while the token tok1 was stored.
C9_Witness ==
    /\ req # <<>>
    /\ req[1].given = [method |-> <<"t","r","a","c","e">>, body |-> "{}", headers |-> NoHeaders]
    /\ req[1].cb = <<JSFALSE>>
    /\ store[KEY_CSRF_TOKEN] = "tok1"

\* C10: for a request whose method is none of GET, HEAD, OPTIONS, TRACE
\* (compared case-insensitively), authenticateRequest sets the header
\* X-CSRF-Token to the stored csrf token when the storage holds one, and
\* leaves the headers as they were when it holds none.
C10_TokenInjected ==
    \A n \in DOMAIN req :
        ("method" \in DOMAIN req[n].given /\ ~IsSafeMethod(req[n].given.method)) =>
            /\ req[n].cb = <<JSFALSE>>
            /\ store[KEY_CSRF_TOKEN] # NULL =>
                  req[n].request.headers[CSRF_HEADER] = store[KEY_CSRF_TOKEN]
            /\ store[KEY_CSRF_TOKEN] = NULL =>
                  req[n].request.headers = req[n].given.headers

\* C10 witness: the request {method: "POST", headers: {}} went through
\* authenticateRequest while the token tok1 was stored, and carries it.
C10_Witness ==
    /\ req # <<>>
    /\ req[1].given = [method |-> <<"P","O","S","T">>, body |-> "{}", headers |-> NoHeaders]
    /\ store[KEY_CSRF_TOKEN] = "tok1"
    /\ req[1].request.headers = [NoHeaders EXCEPT ![CSRF_HEADER] = "tok1"]

\* C11: authenticateRequest cannot fail: whatever the storage holds and
\* whatever the method property of the request is, a request without a method
\* property included, it calls its callback with (false, request), calls the
\* user service not at all and leaves the storage as it was.
C11_AuthenticateRequestNeverFails ==
    \A n \in DOMAIN req :
        /\ ~req[n].threw
        /\ req[n].cb = <<JSFALSE>>

\* The invocation has called the caller's callback with a falsy error.
ReportedSuccess(o) == Len(o.cb) >= 1 /\ ~Truthy(o.cb[1][1])

\* C12: whenever a logIn invoked while a session id is stored reports success
\* to its callback, it has issued a createSession during that logIn and the
\* session in the storage is the one that request returned.
C12_LogInReauthenticates ==
    \A i \in DOMAIN ops :
        LET o == ops[i]
        IN  (/\ o.kind = "logIn"
             /\ o.storeAtCall[KEY_SESSION_ID] # NULL
             /\ ReportedSuccess(o)) =>
              /\ Len(CreateCalls(o)) = 1
              /\ Succeeded(o, Len(o.answers))
              /\ "Session" \in DOMAIN document(o.answers[Len(o.answers)][2])
              /\ o.storeAtCb =
                    _storeSessionInfo(EmptyStore,
                        SessionInfo(document(o.answers[Len(o.answers)][2]).Session))

\* C13: no error of the user service is swallowed: an invocation that got an
\* error from a call made on its behalf, the deleteSession issued by logIn
\* included, hands a failure to the caller's callback.
C13_NoSwallowedError ==
    \A i \in DOMAIN ops :
        LET o == ops[i]
        IN  \A n \in DOMAIN o.answers :
                (Failed(o, n) /\ Len(o.cb) >= 1) => Truthy(o.cb[1][1])

\* The auth info gives each of the fields, none of them empty.
GivesAll(a, fields) == \A f \in fields : f \in DOMAIN a /\ a[f] # ""
IsCredentialPair(a) == GivesAll(a, {"login", "password"})
IsSessionDescriptor(a) == GivesAll(a, {"name", "identifier", "href", "csrfToken"})

OnlyEnsured == \A i \in DOMAIN ops : ops[i].kind = "ensureAuthentication"

\* C15: an agent constructed with a complete session descriptor starts
\* authenticated.  Until something other than ensureAuthentication is invoked,
\* the four storage keys hold the descriptor's name, identifier, href and
\* csrfToken, every ensureAuthentication has called the user service not at
\* all and has reported (false, true), and an authenticateRequest on a method
\* that is not safe has put the descriptor's csrfToken into the request.
C15_DescriptorStartsAuthenticated ==
    (authInfo = <<SessionDescriptor>> /\ OnlyEnsured) =>
        /\ ctor = "ok"
        /\ store[KEY_SESSION_NAME] = "SESSID"
        /\ store[KEY_SESSION_ID] = "old"
        /\ store[KEY_SESSION_HREF] = "/sessions/old"
        /\ store[KEY_CSRF_TOKEN] = "tok0"
        /\ \A i \in DOMAIN ops :
              /\ ops[i].calls = <<>>
              /\ ops[i].wait = NONE
              /\ ops[i].cb = << <<JSFALSE, JSTRUE>> >>
        /\ \A n \in DOMAIN req :
              ("method" \in DOMAIN req[n].given /\ ~IsSafeMethod(req[n].given.method)) =>
                  /\ req[n].request.headers[CSRF_HEADER] = "tok0"
                  /\ req[n].cb = <<JSFALSE>>

\* C15 witness: on an agent constructed with the descriptor, an
\* ensureAuthentication has come back without a call of the service and a
\* POST request that carried a stale token now carries the descriptor's.
C15_Witness ==
    /\ authInfo = <<SessionDescriptor>>
    /\ Len(ops) = 1
    /\ ops[1].kind = "ensureAuthentication"
    /\ ops[1].calls = <<>>
    /\ Len(req) = 1
    /\ "method" \in DOMAIN req[1].given
    /\ req[1].given.method = <<"P","O","S","T">>
    /\ req[1].given.headers[CSRF_HEADER] = "stale"
    /\ req[1].request.headers[CSRF_HEADER] = "tok0"

\* The logins and passwords the caller has supplied or may yet supply.
SuppliedCredentials ==
    (IF authInfo = <<>> THEN {}
     ELSE {authInfo[1][f] : f \in DOMAIN authInfo[1] \cap {"login", "password"}})
        \cup UNION {{c.login, c.password} : c \in Credentials}

\* C16: credentials are never persisted.  The storage holds something under
\* the four session keys only, and nothing it holds is a login or a password
\* given at construction or to setCredentials.  (Every setItem of a run is
\* visible in the storage the run leaves: no run removes a key after it has
\* set one.)
C16_CredentialsNeverPersisted ==
    ctor = "ok" =>
        /\ DOMAIN store \subseteq Keys
        /\ \A k \in DOMAIN store : store[k] \notin SuppliedCredentials
        /\ \A i \in DOMAIN ops :
              /\ DOMAIN ops[i].storeAtCb \subseteq Keys
              /\ \A k \in DOMAIN ops[i].storeAtCb :
                    ops[i].storeAtCb[k] \notin SuppliedCredentials

\* C16 witness: an agent constructed with credentials was given other ones
\* and then created a session, which is in the storage.
C16_Witness ==
    /\ authInfo = <<[login |-> "admin", password |-> "publish"]>>
    /\ Len(ops) = 2
    /\ ops[1].kind = "setCredentials"
    /\ ops[2].kind = "ensureAuthentication"
    /\ login = "editor"
    /\ Succeeded(ops[2], 1)
    /\ ops[2].answers[1][2] = "created abc"
    /\ store[KEY_SESSION_ID] = "abc"

\* The step invokes setCredentials.
SetCredentialsStep ==
    /\ Len(ops') = Len(ops) + 1
    /\ ops'[Len(ops')].kind = "setCredentials"

\* The user service calls the step makes on behalf of the i-th invocation.
NewCalls(i) ==
    SubSeq(ops'[i].calls,
           (IF i \in DOMAIN ops THEN Len(ops[i].calls) ELSE 0) + 1,
           Len(ops'[i].calls))

\* C17: setCredentials changes the login and the password in memory and
\* nothing else.  A step that invokes it calls the user service for no
\* invocation and leaves the storage as it was; the login and the password
\* change in no other step; and every createSession call a step makes carries
\* the login and the password as they are when it is made, that is, as they
\* were set last.
C17_SetCredentialsOnlyInMemory ==
    [][/\ SetCredentialsStep =>
             /\ store' = store
             /\ \A i \in DOMAIN ops' : NewCalls(i) = <<>>
             /\ \E c \in Credentials : login' = c.login /\ password' = c.password
       /\ (login' # login \/ password' # password) => SetCredentialsStep
       /\ \A i \in DOMAIN ops' :
             \A n \in DOMAIN NewCalls(i) :
                 NewCalls(i)[n].fn = "createSession" =>
                     NewCalls(i)[n].args[1].body.SessionInput
                         = [login |-> login, password |-> password]]_vars

\* C17 witness: logIn on an agent with credentials and a stored session;
\* while the deleteSession was outstanding the caller set other credentials,
\* and the createSession that followed carries those.
C17_Witness ==
    /\ Len(ops) = 2
    /\ ops[1].kind = "logIn"
    /\ ops[1].credsAtCall = [login |-> "admin", password |-> "publish"]
    /\ ops[2].kind = "setCredentials"
    /\ ops[2].storeAtCall[KEY_SESSION_ID] = "prev"
    /\ Len(CreateCalls(ops[1])) = 1
    /\ CreateCalls(ops[1])[1].args[1].body.SessionInput
          = [login |-> "editor", password |-> "secret"]

\* C18: no invocation calls the caller's callback more than once, however
\* the invocations and the service's answers interleave; authenticateRequest,
\* which runs to its end in one go, calls it at most once for a GET request,
\* a POST request and a request without a method in every state the agent can
\* be in.
C18_CallbackAtMostOnce ==
    /\ \A i \in DOMAIN ops : Len(ops[i].cb) <= 1
    /\ ctor = "ok" =>
          \A r \in {q \in Requests :
                      /\ q.headers = NoHeaders
                      /\ "method" \in DOMAIN q =>
                            q.method \in {<<"G","E","T">>, <<"P","O","S","T">>}} :
              Len(authenticateRequest(r, store).cb) <= 1

\* C18 witness: a logIn that went through deleteSession and createSession
\* while another invocation ran in between; both have called back once.
C18_Witness ==
    /\ Len(ops) = 2
    /\ ops[1].kind = "logIn"
    /\ Len(ops[1].answers) = 2
    /\ ~ops[1].alone
    /\ ops[2].kind \in {"ensureAuthentication", "isLoggedIn", "logIn", "logOut"}
    /\ Len(ops[1].cb) = 1
    /\ Len(ops[2].cb) = 1

\* C19: every invocation of ensureAuthentication, isLoggedIn, logIn and
\* logOut calls the caller's callback once the service has answered, whatever
\* the answer.  In finite runs: an invocation that waits for no answer of the
\* service has called the callback.
C19_AnsweredMeansCalledBack ==
    \A i \in DOMAIN ops :
        (/\ ops[i].kind \in {"ensureAuthentication", "isLoggedIn", "logIn", "logOut"}
         /\ ops[i].wait = NONE) =>
            Len(ops[i].cb) >= 1

\* C20: the outcomes of the user service are passed through unchanged.  What
\* ensureAuthentication reports when createSession failed, what isLoggedIn
\* reports after refreshSession and what logOut reports after deleteSession is
\* the (error, result) pair the service handed to the agent.
C20_OutcomesPassedThrough ==
    \A i \in DOMAIN ops :
        LET o == ops[i]
        IN  /\ (o.kind = "ensureAuthentication" /\ Failed(o, 1)) =>
                  o.cb = <<o.answers[1]>>
            /\ (o.kind \in {"isLoggedIn", "logOut"} /\ Len(o.answers) >= 1) =>
                  o.cb = <<o.answers[1]>>

\* C20 witness: a logOut whose deleteSession failed has reported the
\* service's error and response, and another one whose deleteSession
\* succeeded has reported (false, true).
C20_Witness ==
    /\ Len(ops) = 2
    /\ ops[1].kind = "logOut"
    /\ ops[1].answers = << <<"error 401", "response 401">> >>
    /\ ops[1].cb = << <<"error 401", "response 401">> >>
    /\ ops[2].kind = "logOut"
    /\ ops[2].answers = << <<JSFALSE, JSTRUE>> >>
    /\ ops[2].cb = << <<JSFALSE, JSTRUE>> >>

\* C21: once the session has been created, ensureAuthentication calls its
\* callback with (false, true), as it does when a session was stored already.
C21_EnsureReportsTrue ==
    \A i \in DOMAIN ops :
        LET o == ops[i]
        IN  (/\ o.kind = "ensureAuthentication"
             /\ Succeeded(o, 1)
             /\ Len(o.cb) >= 1) =>
                o.cb[1] = <<JSFALSE, JSTRUE>>

\* C22: the agent does not serialize authentication.  A second
\* ensureAuthentication invoked while the first one's createSession is
\* outstanding, on an agent that still has no session, has found no session
\* either and has issued a createSession of its own, which is outstanding
\* until the service answers it.
C22_NoMutualExclusion ==
    \A i \in DOMAIN ops : \A j \in DOMAIN ops :
        (/\ i < j
         /\ ops[i].kind = "ensureAuthentication"
         /\ ops[j].kind = "ensureAuthentication"
         /\ ops[i].wait = "createSession"
         /\ ops[j].storeAtCall[KEY_SESSION_ID] = NULL) =>
            /\ ops[i].storeAtCall[KEY_SESSION_ID] = NULL
            /\ Len(CreateCalls(ops[j])) = 1
            /\ ops[j].answers = <<>> => ops[j].wait = "createSession"

\* C22 witness: two createSession requests are outstanding at once.
C22_Witness ==
    /\ Len(ops) = 2
    /\ ops[1].kind = "ensureAuthentication"
    /\ ops[2].kind = "ensureAuthentication"
    /\ ops[1].wait = "createSession"
    /\ ops[2].wait = "createSession"
    /\ store[KEY_SESSION_ID] = NULL

\* Every invocation up to the i-th came back before the next one was made.
OneAfterTheOther(i) == \A k \in 1..i : ops[k].alone /\ ops[k].wait = NONE

\* C23: the ensureAuthentication that follows an isLoggedIn whose refresh
\* failed, with nothing in between, authenticates from scratch: it issues a
\* createSession with the login and the password the agent holds and reports
\* nothing before the service answers.
C23_EnsureAfterFailedRefreshCreates ==
    \A i \in DOMAIN ops :
        (/\ i + 1 \in DOMAIN ops
         /\ OneAfterTheOther(i)
         /\ ops[i].kind = "isLoggedIn"
         /\ Failed(ops[i], 1)
         /\ ops[i + 1].kind = "ensureAuthentication") =>
            LET o == ops[i + 1]
            IN  /\ Len(CreateCalls(o)) = 1
                /\ CreateCalls(o)[1].args[1].body.SessionInput = o.credsAtCall
                /\ o.answers = <<>> => (o.cb = <<>> /\ o.wait = "createSession")

\* C23 witness: the refresh of the session an agent was constructed with
\* failed, and the ensureAuthentication after it waits for its createSession.
C23_Witness ==
    /\ Len(ops) = 2
    /\ ops[1].kind = "isLoggedIn"
    /\ ops[1].alone
    /\ ops[1].storeAtCall[KEY_SESSION_ID] # NULL
    /\ Failed(ops[1], 1)
    /\ ops[2].kind = "ensureAuthentication"
    /\ ops[2].wait = "createSession"

\* The deleteSession calls of an invocation.
DeleteCalls(o) == SelectSeq(o.calls, LAMBDA c : c.fn = "deleteSession")

\* C24: logIn takes its two steps in order.  With a session id stored, the
\* run that invokes it issues deleteSession for the stored href and nothing
\* else, no createSession is issued while that deleteSession is outstanding,
\* and a createSession is issued only in the run in which the service answers
\* the deleteSession.  With no session id stored, logIn issues no
\* deleteSession and the run that invokes it leaves what ensureAuthentication
\* would leave; the answer to its createSession is reported and stored as
\* ensureAuthentication does.
C24_LogInOrdersItsSteps ==
    [][\A i \in DOMAIN ops' :
          LET o == ops'[i]
          IN  o.kind = "logIn" =>
                IF o.storeAtCall[KEY_SESSION_ID] # NULL
                THEN /\ i \notin DOMAIN ops =>
                           /\ o.calls = <<[fn |-> "deleteSession",
                                           args |-> <<store[KEY_SESSION_HREF]>>]>>
                           /\ o.wait = "deleteSession"
                           /\ o.cb = <<>>
                           /\ store' = store
                     /\ o.wait = "deleteSession" => CreateCalls(o) = <<>>
                     /\ Len(DeleteCalls(o)) = 1
                     /\ (\E n \in DOMAIN NewCalls(i) : NewCalls(i)[n].fn = "createSession") =>
                           /\ i \in DOMAIN ops
                           /\ ops[i].wait = "deleteSession"
                           /\ Len(o.answers) = 1
                ELSE /\ DeleteCalls(o) = <<>>
                     /\ i \notin DOMAIN ops =>
                           /\ o = [ensureAuthentication(
                                       NewOp("ensureAuthentication", store), store).op
                                   EXCEPT !.kind = "logIn"]
                           /\ store' = store
                     /\ Len(CreateCalls(o)) = 1
                     /\ Failed(o, 1) => o.cb = <<o.answers[1]>>
                     /\ (Succeeded(o, 1) /\ o.cb # <<>>) =>
                           o.storeAtCb[KEY_SESSION_HREF]
                               = document(o.answers[1][2]).Session._href]_vars

\* C24 witness: a logIn on an agent with a stored session has had its
\* deleteSession answered and has then issued its createSession.
C24_Witness ==
    /\ Len(ops) >= 1
    /\ ops[1].kind = "logIn"
    /\ ops[1].storeAtCall[KEY_SESSION_HREF] = "/sessions/old"
    /\ Len(ops[1].calls) = 3
    /\ ops[1].calls[1] = [fn |-> "deleteSession", args |-> <<"/sessions/old">>]
    /\ ops[1].calls[3].fn = "createSession"
    /\ Succeeded(ops[1], 1)
    /\ ops[1].wait = "createSession"

\* C25: an isLoggedIn whose refresh succeeds does not change the storage.
\* The storage is, when the callback is called, as it was when the service
\* answered; when no other invocation has run in between it is as it was when
\* isLoggedIn was invoked, and the session id is still stored.
C25_RefreshSuccessKeepsStore ==
    \A i \in DOMAIN ops :
        LET o == ops[i]
        IN  (o.kind = "isLoggedIn" /\ Succeeded(o, 1)) =>
                /\ Len(o.cb) = 1
                /\ o.storeAtCb = o.storeBefore
                /\ o.alone =>
                      /\ o.storeAtCb = o.storeAtCall
                      /\ o.storeAtCb[KEY_SESSION_ID] # NULL

\* C25 witness: the refresh of the session the agent was constructed with
\* succeeded and the four keys hold the descriptor's values.
C25_Witness ==
    /\ authInfo = <<SessionDescriptor>>
    /\ Len(ops) = 1
    /\ ops[1].kind = "isLoggedIn"
    /\ ops[1].answers = << <<JSFALSE, JSTRUE>> >>
    /\ ops[1].cb = << <<JSFALSE, JSTRUE>> >>
    /\ store[KEY_SESSION_NAME] = "SESSID"
    /\ store[KEY_SESSION_ID] = "old"
    /\ store[KEY_SESSION_HREF] = "/sessions/old"
    /\ store[KEY_CSRF_TOKEN] = "tok0"

\* The four keys of a storage hold these four values.
Holds(st, name, identifier, href, csrfToken) ==
    /\ st[KEY_SESSION_NAME] = name
    /\ st[KEY_SESSION_ID] = identifier
    /\ st[KEY_SESSION_HREF] = href
    /\ st[KEY_CSRF_TOKEN] = csrfToken

\* The four keys of a storage hold the properties of the Session object of
\* a create response the service has handed to the agent.
HoldsCreated(st) ==
    \E i \in DOMAIN ops : \E n \in DOMAIN ops[i].answers :
        /\ Succeeded(ops[i], n)
        /\ "Session" \in DOMAIN document(ops[i].answers[n][2])
        /\ LET session == document(ops[i].answers[n][2]).Session
           IN  Holds(st, Prop(session, "name"), Prop(session, "identifier"),
                     Prop(session, "_href"), Prop(session, "csrfToken"))

\* The four keys hold the session descriptor the agent was constructed with,
\* or the session that was in the storage before.
HoldsGiven(st) ==
    \/ /\ authInfo # <<>>
       /\ IsSessionDescriptor(authInfo[1])
       /\ Holds(st, authInfo[1].name, authInfo[1].identifier,
                authInfo[1].href, authInfo[1].csrfToken)
    \/ Holds(st, "SESSID", "prev", "/sessions/prev", "tok9")

\* C26: under every interleaving, a storage that is not empty holds under
\* its four keys the name, identifier, href and csrfToken of one session: of
\* one create response, of the descriptor given at construction, or of the
\* session found in the storage.  Values of two sessions are never mixed.
C26_OneSessionInStore ==
    ctor = "ok" =>
        \/ Holds(store, NULL, NULL, NULL, NULL)
        \/ HoldsGiven(store)
        \/ HoldsCreated(store)

\* C26 witness: two overlapping ensureAuthentication had their createSession
\* answered with different sessions, and the storage holds the second answer's.
C26_Witness ==
    /\ Len(ops) = 2
    /\ ops[1].kind = "ensureAuthentication"
    /\ ops[2].kind = "ensureAuthentication"
    /\ Len(CreateCalls(ops[1])) = 1
    /\ Len(CreateCalls(ops[2])) = 1
    /\ ops[1].answers = << <<JSFALSE, "created abc">> >>
    /\ ops[2].answers = << <<JSFALSE, "created xyz">> >>
    /\ ops[1].storeBefore[KEY_SESSION_ID] = NULL
    /\ ops[2].storeBefore[KEY_SESSION_ID] = "abc"
    /\ Holds(store, "eZSESSID", "xyz", "/sessions/xyz", "tok2")

\* The service has answered the first call of an invocation, a call of fn,
\* and no further one.
FirstAnswered(o, fn) ==
    /\ Len(o.answers) = 1
    /\ o.calls[1].fn = fn

\* C27 as claimed: a late answer clears only the session its request was
\* about.  When a refreshSession fails or a deleteSession succeeds, the
\* storage holds, as the callback begins, no session or the session the request
\* was issued for, never one stored since.
C27_LateAnswerSparesNewSession ==
    \A i \in DOMAIN ops :
        LET o == ops[i]
        IN  /\ (FirstAnswered(o, "refreshSession") /\ Failed(o, 1)) =>
                  o.storeBefore[KEY_SESSION_ID] \in {NULL, o.calls[1].args[1]}
            /\ (FirstAnswered(o, "deleteSession") /\ Succeeded(o, 1)) =>
                  o.storeBefore[KEY_SESSION_HREF] \in {NULL, o.calls[1].args[1]}

\* C27 as amended: when no other invocation has run since the request was
\* issued, the storage holds the session the request was issued for as the
\* callback begins; and a failed refreshSession and a successful deleteSession
\* leave nothing under the four keys, whatever was stored.
C27_AnswerClearsWhatIsStored ==
    \A i \in DOMAIN ops :
        LET o == ops[i]
        IN  /\ FirstAnswered(o, "refreshSession") =>
                  /\ o.alone => o.storeBefore[KEY_SESSION_ID] = o.calls[1].args[1]
                  /\ Failed(o, 1) => Holds(o.storeAtCb, NULL, NULL, NULL, NULL)
            /\ FirstAnswered(o, "deleteSession") =>
                  /\ o.alone => o.storeBefore[KEY_SESSION_HREF] = o.calls[1].args[1]
                  /\ (Succeeded(o, 1) /\ o.kind = "logOut") =>
                        Holds(o.storeAtCb, NULL, NULL, NULL, NULL)

\* C27 witness: a refreshSession issued for the session "old" failed with no
\* other invocation in between, and that session is gone.
C27_Witness ==
    /\ Len(ops) >= 1
    /\ ops[1].kind = "isLoggedIn"
    /\ ops[1].alone
    /\ ops[1].calls = <<[fn |-> "refreshSession", args |-> <<"old">>]>>
    /\ Failed(ops[1], 1)
    /\ ops[1].storeBefore[KEY_SESSION_ID] = "old"
    /\ ops[1].storeAtCb[KEY_SESSION_ID] = NULL

\* The request was given with a method that is not a safe one.
NotSafe(q) == "method" \in DOMAIN q.given /\ ~IsSafeMethod(q.given.method)

\* The invocations so far ran one after the other and the last one is o.
RanLast(o) ==
    /\ Len(ops) >= 1
    /\ o = ops[Len(ops)]
    /\ OneAfterTheOther(Len(ops))

\* C28: the token authenticateRequest puts into a request that is not safe
\* is the csrf token of the session the storage holds.  With an empty storage
\* the request is left as given; otherwise the four keys hold one session and
\* the header is that session's csrfToken.  After invocations that ran one
\* after the other: when the last one stored a created session, the header is
\* that session's csrfToken; when it was a logOut that succeeded or an
\* isLoggedIn whose refresh failed, the request is left as given.
C28_TokenOfStoredSession ==
    \A n \in DOMAIN req :
        LET q == req[n]
        IN  NotSafe(q) =>
              /\ IF Holds(store, NULL, NULL, NULL, NULL)
                 THEN q.request = q.given
                 ELSE /\ HoldsGiven(store) \/ HoldsCreated(store)
                      /\ q.request.headers[CSRF_HEADER] = store[KEY_CSRF_TOKEN]
              /\ \A i \in DOMAIN ops :
                    LET o == ops[i]
                        last == o.answers[Len(o.answers)]
                    IN  (RanLast(o) /\ o.answers # <<>>) =>
                          /\ (/\ o.calls[Len(o.calls)].fn = "createSession"
                              /\ ~Truthy(last[1])
                              /\ "Session" \in DOMAIN document(last[2])
                              /\ "csrfToken" \in DOMAIN document(last[2]).Session) =>
                                 q.request.headers[CSRF_HEADER] =
                                     document(last[2]).Session.csrfToken
                          /\ (/\ o.kind = "logOut" /\ Succeeded(o, 1)) => q.request = q.given
                          /\ (/\ o.kind = "isLoggedIn" /\ Failed(o, 1)) => q.request = q.given

\* C28 witness: logIn on an agent constructed with a descriptor replaced the
\* session, and a POST request got the new session's token, not the old one.
C28_Witness ==
    /\ authInfo = <<SessionDescriptor>>
    /\ Len(ops) = 1
    /\ ops[1].kind = "logIn"
    /\ ops[1].answers = << <<JSFALSE, JSTRUE>>, <<JSFALSE, "created xyz">> >>
    /\ Len(req) = 1
    /\ NotSafe(req[1])
    /\ req[1].request.headers[CSRF_HEADER] = "tok2"

\* C29: authenticateRequest changes nothing of a request but the
\* X-CSRF-Token header: the request keeps its properties, its method, its
\* body and every other header; and a token header that a request with a
\* method that is not safe already carries is replaced by the stored token
\* when one is stored.
C29_OnlyTokenHeaderChanges ==
    \A n \in DOMAIN req :
        LET q == req[n]
        IN  /\ DOMAIN q.request = DOMAIN q.given
            /\ \A f \in DOMAIN q.given \ {"headers"} : q.request[f] = q.given[f]
            /\ DOMAIN q.request.headers = DOMAIN q.given.headers
            /\ \A h \in DOMAIN q.given.headers \ {CSRF_HEADER} :
                  q.request.headers[h] = q.given.headers[h]
            /\ (/\ NotSafe(q)
                /\ q.given.headers[CSRF_HEADER] # ABSENT
                /\ store[KEY_CSRF_TOKEN] # NULL) =>
                  q.request.headers[CSRF_HEADER] = store[KEY_CSRF_TOKEN]

\* C29 witness: a put request that carried a stale token and an Accept header
\* carries the stored token, the same Accept header and the same body.
C29_Witness ==
    /\ Len(req) = 1
    /\ "method" \in DOMAIN req[1].given
    /\ req[1].given.method = <<"p","u","t">>
    /\ req[1].given.headers[CSRF_HEADER] = "stale"
    /\ req[1].given.headers["Accept"] = "application/json"
    /\ store[KEY_CSRF_TOKEN] = "tok9"
    /\ req[1].request.headers[CSRF_HEADER] = "tok9"
    /\ req[1].request.headers["Accept"] = "application/json"
    /\ req[1].request.body = "{}"

====
